---- MODULE Spec2Model ----
(***************************************************************************)
(* A model of the Swagger-to-MCP server (class SwaggerMCPServer and main). *)
(*                                                                         *)
(* Text is a sequence of one-character strings, so that splitting,         *)
(* slicing, replacing and concatenating are computed as the code computes  *)
(* them.  A JavaScript object with ordered keys (the paths object, a path  *)
(* item) is a sequence of entries with distinct keys.  A missing value and *)
(* the empty string are both falsy in every test the code makes on text    *)
(* (operationId, summary, description, toolPrefix, baseUrl, type), so both *)
(* are the empty text <<>> (or "" for a type).                             *)
(***************************************************************************)
EXTENDS Integers, Sequences, FiniteSets, TLC

VARIABLES
    pc,          \* position of main: "main", "constructed", "loaded",
                 \* "initialized", "connected", "exited"
    config,      \* ServerConfig
    source,      \* what the configured document source would deliver
    swaggerDoc,  \* this.swaggerDoc
    tools,       \* this.tools
    calls,       \* the call-tool requests received so far, with their state
    listed,      \* the list-tools responses sent so far
    httpLog,     \* the outbound API requests handed to the HTTP client
    fnIn,        \* input of the pure function under check
    fnOut        \* its result

vars == <<pc, config, source, swaggerDoc, tools, calls, listed, httpLog, fnIn, fnOut>>

serverVars == <<pc, config, source, swaggerDoc, tools, calls, listed, httpLog>>

(***************************************************************************)
(* Bounds of the model.                                                    *)
(***************************************************************************)
MaxPathLen == 4   \* length of the enumerated path templates
MaxParams == 2    \* parameters of an enumerated operation
MaxPaths == 2     \* paths of an enumerated API description
MaxKeys == 2      \* keys of an enumerated path item
MaxCalls == 2     \* call-tool requests of one run
MaxLists == 2     \* list-tools requests of one run

(***************************************************************************)
(* JavaScript string primitives.                                           *)
(***************************************************************************)
UpperLetters ==
    <<"A","B","C","D","E","F","G","H","I","J","K","L","M",
      "N","O","P","Q","R","S","T","U","V","W","X","Y","Z">>

LowerLetters ==
    <<"a","b","c","d","e","f","g","h","i","j","k","l","m",
      "n","o","p","q","r","s","t","u","v","w","x","y","z">>

Digits == {"0","1","2","3","4","5","6","7","8","9"}

Range(s) == {s[i] : i \in DOMAIN s}

\* [a-zA-Z0-9]
IsAlnum(c) == c \in Range(UpperLetters) \cup Range(LowerLetters) \cup Digits

toLowerCase(s) ==
    [i \in DOMAIN s |->
        IF \E k \in DOMAIN UpperLetters : UpperLetters[k] = s[i]
        THEN LowerLetters[CHOOSE k \in DOMAIN UpperLetters : UpperLetters[k] = s[i]]
        ELSE s[i]]

toUpperCase(s) ==
    [i \in DOMAIN s |->
        IF \E k \in DOMAIN LowerLetters : LowerLetters[k] = s[i]
        THEN UpperLetters[CHOOSE k \in DOMAIN LowerLetters : LowerLetters[k] = s[i]]
        ELSE s[i]]

\* s.split(c) for a one-character separator: "".split("/") is [""]
RECURSIVE Split(_, _)
Split(s, c) ==
    IF \A i \in DOMAIN s : s[i] /= c
    THEN <<s>>
    ELSE LET k == CHOOSE i \in DOMAIN s : s[i] = c /\ \A j \in 1..(i - 1) : s[j] /= c
         IN  <<SubSeq(s, 1, k - 1)>> \o Split(SubSeq(s, k + 1, Len(s)), c)

\* parts.join(sep)
RECURSIVE Join(_, _)
Join(parts, sep) ==
    IF parts = <<>> THEN <<>>
    ELSE IF Len(parts) = 1 THEN parts[1]
    ELSE parts[1] \o sep \o Join(Tail(parts), sep)

\* parts.filter(part => part): the empty string is falsy
FilterNonEmpty(parts) == SelectSeq(parts, LAMBDA p : p /= <<>>)

startsWith(s, c) == Len(s) >= 1 /\ s[1] = c

endsWith(s, c) == Len(s) >= 1 /\ s[Len(s)] = c

\* part.replace(/[^a-zA-Z0-9]/g, '_')
SanitizePart(part) == [i \in DOMAIN part |-> IF IsAlnum(part[i]) THEN part[i] ELSE "_"]

\* the callback of pathParts.map(...)
MapPart(part) ==
    IF startsWith(part, "{") /\ endsWith(part, "}")
    THEN <<"b", "y", "_">> \o SubSeq(part, 2, Len(part) - 1)
    ELSE SanitizePart(part)

(***************************************************************************)
(* Tool Name Generator.                                                    *)
(***************************************************************************)
\* generateToolName without the filter of the empty parts
generateToolNameKeepEmpty(prefix, method, path, operation) ==
    IF operation.operationId /= <<>>
    THEN prefix \o operation.operationId
    ELSE LET parts == Split(path, "/")
             pathParts == [i \in DOMAIN parts |-> MapPart(parts[i])]
         IN  prefix \o toLowerCase(method) \o <<"_">> \o Join(pathParts, <<"_">>)

\* generateToolName sanitising the operationId like a path part
generateToolNameSanitizedId(prefix, method, path, operation) ==
    IF operation.operationId /= <<>>
    THEN prefix \o SanitizePart(operation.operationId)
    ELSE LET parts == FilterNonEmpty(Split(path, "/"))
             pathParts == [i \in DOMAIN parts |-> MapPart(parts[i])]
         IN  prefix \o toLowerCase(method) \o <<"_">> \o Join(pathParts, <<"_">>)

generateToolName(prefix, method, path, operation) ==
    IF operation.operationId /= <<>>
    THEN prefix \o operation.operationId
    ELSE LET parts == FilterNonEmpty(Split(path, "/"))
             pathParts == [i \in DOMAIN parts |-> MapPart(parts[i])]
             methodName == toLowerCase(method)
         IN  prefix \o methodName \o <<"_">> \o Join(pathParts, <<"_">>)

(***************************************************************************)
(* Type Mapper and Tool Schema Builder.                                    *)
(***************************************************************************)
\* mapSwaggerType with a case for number
mapSwaggerTypeNumber(swaggerType) ==
    CASE swaggerType = "integer" -> "number"
      [] swaggerType = "number" -> "number"
      [] swaggerType = "boolean" -> "boolean"
      [] swaggerType = "array" -> "array"
      [] swaggerType = "object" -> "object"
      [] OTHER -> "string"

mapSwaggerType(swaggerType) ==
    CASE swaggerType = "integer" -> "number"
      [] swaggerType = "boolean" -> "boolean"
      [] swaggerType = "array" -> "array"
      [] swaggerType = "object" -> "object"
      [] OTHER -> "string"

\* a || b on types: "" stands for a missing (or empty) type
OrType(a, b) == IF a /= "" THEN a ELSE b

\* a || b on text
OrText(a, b) == IF a /= <<>> THEN a ELSE b

EmptyObject == [k \in {} |-> k]

\* the value assigned to properties[param.name]
PropertyOf(param) ==
    [type |-> mapSwaggerType(OrType(param.type, OrType(param.schemaType, "string"))),
     description |-> OrText(param.description,
                            param.name \o <<" ", "p","a","r","a","m","e","t","e","r">>)]

\* properties after parameters.forEach: a later assignment to the same key
\* replaces the earlier one
RECURSIVE PropertiesOf(_)
PropertiesOf(parameters) ==
    IF parameters = <<>> THEN EmptyObject
    ELSE LET n == Len(parameters)
         IN  (parameters[n].name :> PropertyOf(parameters[n]))
                 @@ PropertiesOf(SubSeq(parameters, 1, n - 1))

\* required after parameters.forEach
RECURSIVE RequiredOf(_)
RequiredOf(parameters) ==
    IF parameters = <<>> THEN <<>>
    ELSE (IF Head(parameters).required THEN <<Head(parameters).name>> ELSE <<>>)
             \o RequiredOf(Tail(parameters))

createToolFromOperation(name, method, path, operation) ==
    LET parameters == operation.parameters
    IN  [name |-> name,
         description |-> OrText(operation.summary,
                           OrText(operation.description,
                                  toUpperCase(method) \o <<" ">> \o path)),
         inputSchema |-> [type |-> "object",
                          properties |-> PropertiesOf(parameters),
                          required |-> RequiredOf(parameters)],
         method |-> toUpperCase(method),
         path |-> path,
         parameters |-> parameters]

(***************************************************************************)
(* Operation Catalog Builder.                                              *)
(***************************************************************************)
get == <<"g","e","t">>
post == <<"p","o","s","t">>
put == <<"p","u","t">>
delete == <<"d","e","l","e","t","e">>
patch == <<"p","a","t","c","h">>
options == <<"o","p","t","i","o","n","s">>
head == <<"h","e","a","d">>

\* the method list with options and head added
ToolMethodsWithOptions == {get, post, put, delete, patch, options, head}

ToolMethods == {get, post, put, delete, patch}

\* the (path, method, operation) triples in the order of the two nested
\* Object.entries(...).forEach loops
RECURSIVE ItemEntries(_, _)
ItemEntries(path, pathItem) ==
    IF pathItem = <<>> THEN <<>>
    ELSE <<[path |-> path, method |-> Head(pathItem).key,
            operation |-> Head(pathItem).operation]>>
             \o ItemEntries(path, Tail(pathItem))

RECURSIVE DocEntries(_)
DocEntries(paths) ==
    IF paths = <<>> THEN <<>>
    ELSE ItemEntries(Head(paths).path, Head(paths).item) \o DocEntries(Tail(paths))

\* the body of the inner loop, run over the entries in order on this.tools;
\* reading operation.operationId of a null operation throws a TypeError, which
\* ends generateTools with the descriptors pushed so far
RECURSIVE PushTools(_, _, _)
PushTools(prefix, entries, acc) ==
    IF entries = <<>> THEN [tools |-> acc, threw |-> FALSE]
    ELSE LET e == Head(entries)
         IN  IF e.method \in ToolMethods
             THEN IF e.operation.isNull
                  THEN [tools |-> acc, threw |-> TRUE]
                  ELSE LET toolName == generateToolName(prefix, e.method, e.path, e.operation)
                           tool == createToolFromOperation(toolName, e.method, e.path, e.operation)
                       IN  PushTools(prefix, Tail(entries), Append(acc, tool))
             ELSE PushTools(prefix, Tail(entries), acc)

\* const prefix = this.config.toolPrefix ? `${this.config.toolPrefix}_` : ''
PrefixOf(cfg) == IF cfg.toolPrefix /= <<>> THEN cfg.toolPrefix \o <<"_">> ELSE <<>>

\* generateTools on a loaded document: the new this.tools and whether it threw
generateTools(cfg, doc, old) ==
    IF ~doc.hasPaths THEN [tools |-> old, threw |-> TRUE]
    ELSE PushTools(PrefixOf(cfg), DocEntries(doc.paths), old)

(***************************************************************************)
(* Values of the argument bag and of HTTP payloads: a string, a number     *)
(* (kept as its decimal text) or an object whose entries are scalars.      *)
(***************************************************************************)
Str(text) == [kind |-> "string", text |-> text, entries |-> <<>>]

Num(text) == [kind |-> "number", text |-> text, entries |-> <<>>]

Obj(entries) == [kind |-> "object", text |-> <<>>, entries |-> entries]

\* String(value)
StringOf(value) ==
    IF value.kind = "object"
    THEN <<"[","o","b","j","e","c","t"," ","O","b","j","e","c","t","]">>
    ELSE value.text

\* args[key]: the entry of the bag under key, if any
HasArg(args, key) == \E i \in DOMAIN args : args[i].key = key

ArgOf(args, key) == args[CHOOSE i \in DOMAIN args : args[i].key = key].value

\* JSON.stringify(value, null, 2) on these values
JsonScalar(value) ==
    IF value.kind = "string" THEN <<"\"">> \o value.text \o <<"\"">> ELSE value.text

RECURSIVE JsonEntries(_)
JsonEntries(entries) ==
    IF entries = <<>> THEN <<>>
    ELSE <<" ", " ", "\"">> \o Head(entries).key \o <<"\"", ":", " ">>
            \o JsonScalar(Head(entries).value)
            \o (IF Tail(entries) = <<>> THEN <<"\n">>
                ELSE <<",", "\n">> \o JsonEntries(Tail(entries)))

JsonStringify(value) ==
    IF value.kind /= "object" THEN JsonScalar(value)
    ELSE IF value.entries = <<>> THEN <<"{", "}">>
    ELSE <<"{", "\n">> \o JsonEntries(value.entries) \o <<"}">>

(***************************************************************************)
(* Request Builder: buildUrl and getBaseUrlFromSwagger.                    *)
(***************************************************************************)
\* stands for an unpaired surrogate code unit
LoneSurrogate == "\\uD800"

\* the characters encodeURIComponent leaves alone
IsUnreserved(c) == IsAlnum(c) \/ c \in {"-", "_", ".", "!", "~", "*", "'", "(", ")"}

PercentCode(c) ==
    CASE c = " " -> <<"%","2","0">>
      [] c = "#" -> <<"%","2","3">>
      [] c = "%" -> <<"%","2","5">>
      [] c = "/" -> <<"%","2","F">>
      [] c = ":" -> <<"%","3","A">>
      [] c = "?" -> <<"%","3","F">>
      [] c = "[" -> <<"%","5","B">>
      [] c = "]" -> <<"%","5","D">>
      [] c = "{" -> <<"%","7","B">>
      [] c = "}" -> <<"%","7","D">>

RECURSIVE EncodeChars(_)
EncodeChars(text) ==
    IF text = <<>> THEN <<>>
    ELSE (IF IsUnreserved(Head(text)) THEN <<Head(text)>> ELSE PercentCode(Head(text)))
            \o EncodeChars(Tail(text))

\* encodeURIComponent(value): throws URIError on an unpaired surrogate
encodeURIComponent(value) ==
    LET text == StringOf(value)
    IN  IF \E i \in DOMAIN text : text[i] = LoneSurrogate
        THEN [threw |-> TRUE, message |-> <<"URI malformed">>, text |-> <<>>]
        ELSE [threw |-> FALSE, message |-> <<>>, text |-> EncodeChars(text)]

\* s.indexOf(pat) + 1, or 0
IndexOf(s, pat) ==
    LET hits == {i \in 1..(Len(s) - Len(pat) + 1) : SubSeq(s, i, i + Len(pat) - 1) = pat}
    IN  IF hits = {} THEN 0 ELSE CHOOSE i \in hits : \A j \in hits : i <= j

\* s.replace(pat, rep) with a string pattern: the first occurrence only
ReplaceFirst(s, pat, rep) ==
    LET i == IndexOf(s, pat)
    IN  IF i = 0 THEN s
        ELSE SubSeq(s, 1, i - 1) \o rep \o SubSeq(s, i + Len(pat), Len(s))

\* url = url.replace(`{${key}}`, encodeURIComponent(args[key]))
ReplaceKey(url, key, enc) ==
    IF enc.threw THEN enc
    ELSE [threw |-> FALSE, message |-> <<>>,
          text |-> ReplaceFirst(url, <<"{">> \o key \o <<"}">>, enc.text)]

\* Object.keys(args).forEach(...): a throw ends the loop
RECURSIVE SubstitutePath(_, _)
SubstitutePath(sub, args) ==
    IF sub.threw \/ args = <<>> THEN sub
    ELSE SubstitutePath(
             ReplaceKey(sub.text, Head(args).key, encodeURIComponent(Head(args).value)),
             Tail(args))

TextHttps == <<"h","t","t","p","s">>
TextLocalhost == <<"l","o","c","a","l","h","o","s","t">>
TextUndefined == <<"u","n","d","e","f","i","n","e","d">>

\* the document is loaded whenever a tool can be called, so the throw of the
\* first lines is never taken
getBaseUrlFromSwagger(doc) ==
    LET schemes == IF doc.schemes.declared THEN doc.schemes.list ELSE <<TextHttps>>
        scheme == IF schemes = <<>> THEN TextUndefined ELSE schemes[1]
        host == OrText(doc.host, TextLocalhost)
        basePath == doc.basePath
    IN  scheme \o <<":", "/", "/">> \o host \o basePath

\* what the URL parser does to the characters of a path: braces and spaces
\* are percent-encoded
RECURSIVE PathEncode(_)
PathEncode(text) ==
    IF text = <<>> THEN <<>>
    ELSE (IF Head(text) \in {"{", "}", " "} THEN PercentCode(Head(text)) ELSE <<Head(text)>>)
            \o PathEncode(Tail(text))

\* the segment that follows when a dot segment ends the path
AfterDots(segs) == IF Tail(segs) = <<>> THEN <<<<>>>> ELSE <<>>

\* what the URL parser does to the segments of a path: "." is dropped and
\* ".." drops the segment before it as well
RECURSIVE ShortenPath(_, _)
ShortenPath(segs, acc) ==
    IF segs = <<>> THEN acc
    ELSE ShortenPath(Tail(segs),
             CASE Head(segs) = <<".", ".">> ->
                      SubSeq(acc, 1, Len(acc) - 1) \o AfterDots(segs)
               [] Head(segs) = <<".">> -> acc \o AfterDots(segs)
               [] OTHER -> Append(acc, Head(segs)))

\* the path of a URL parsed from text that starts with "/"
PathSegments(encoded) == Split(SubSeq(encoded, 2, Len(encoded)), "/")

ParsePath(text) ==
    <<"/">> \o Join(ShortenPath(PathSegments(PathEncode(text)), <<>>), <<"/">>)

NotAUrl == [ok |-> FALSE, scheme |-> <<>>, host |-> <<>>, pathname |-> <<>>]

\* host and path of what follows "://": k is the place of its first "/"
ParseAuthority(scheme, rest, k) ==
    IF k = 1 \/ rest = <<>> THEN NotAUrl
    ELSE [ok |-> TRUE, scheme |-> scheme,
          host |-> IF k = 0 THEN rest ELSE SubSeq(rest, 1, k - 1),
          pathname |-> IF k = 0 THEN <<"/">> ELSE ParsePath(SubSeq(rest, k, Len(rest)))]

ParseAfterScheme(scheme, rest) == ParseAuthority(scheme, rest, IndexOf(rest, <<"/">>))

\* i is the place of "://" in text
ParseAt(text, i) ==
    IF i <= 1 THEN NotAUrl
    ELSE ParseAfterScheme(SubSeq(text, 1, i - 1), SubSeq(text, i + 3, Len(text)))

\* new URL(text) for text of the form scheme://host[/path]; any other text
\* is not a URL and the constructor throws
ParseUrl(text) == ParseAt(text, IndexOf(text, <<":", "/", "/">>))

\* url.toString()
UrlToString(u) == u.scheme \o <<":", "/", "/">> \o u.host \o u.pathname

\* the directory of a path: up to and including its last "/"
DirOf(pathname) ==
    LET slashes == {i \in DOMAIN pathname : pathname[i] = "/"}
    IN  SubSeq(pathname, 1, CHOOSE i \in slashes : \A j \in slashes : j <= i)

InvalidUrl == [threw |-> TRUE, message |-> <<"Invalid URL">>, text |-> <<>>]

Built(text) == [threw |-> FALSE, message |-> <<>>, text |-> text]

\* the two branches of `if (url.startsWith('/'))`
JoinUrl(baseUrlObj, url) ==
    IF ~baseUrlObj.ok THEN InvalidUrl
    ELSE IF startsWith(url, "/")
    THEN Built(UrlToString([baseUrlObj EXCEPT
             !.pathname = ParsePath((IF endsWith(@, "/") THEN @ ELSE @ \o <<"/">>)
                                       \o SubSeq(url, 2, Len(url)))]))
    ELSE Built(UrlToString([baseUrlObj EXCEPT
             !.pathname = IF url = <<>> THEN @ ELSE ParsePath(DirOf(@) \o url)]))

\* buildUrl once the path parameters are replaced
CombineWithBase(sub, baseUrl) ==
    IF sub.threw THEN sub ELSE JoinUrl(ParseUrl(baseUrl), sub.text)

buildUrl(cfg, doc, path, args) ==
    CombineWithBase(SubstitutePath(Built(path), args),
                    OrText(cfg.baseUrl, getBaseUrlFromSwagger(doc)))

(***************************************************************************)
(* Invocation Proxy: callApiTool, up to the await of the HTTP client and   *)
(* from its settling on.                                                   *)
(***************************************************************************)
\* Object.assign(bodyData, value): the own enumerable properties of value;
\* a string contributes its characters under their indices, a number nothing
IndexKeys == <<"0","1","2","3","4","5","6","7","8","9">>

OwnEntries(value) ==
    CASE value.kind = "object" -> value.entries
      [] value.kind = "string" ->
            [i \in 1..Len(value.text) |->
                [key |-> <<IndexKeys[i]>>, value |-> Str(<<value.text[i]>>)]]
      [] OTHER -> <<>>

\* obj[key] = value on an object kept as a sequence of entries: an existing
\* key keeps its place
SetEntry(obj, key, value) ==
    IF \E i \in DOMAIN obj : obj[i].key = key
    THEN [i \in DOMAIN obj |-> IF obj[i].key = key THEN [key |-> key, value |-> value]
                                ELSE obj[i]]
    ELSE Append(obj, [key |-> key, value |-> value])

RECURSIVE AssignEntries(_, _)
AssignEntries(obj, entries) ==
    IF entries = <<>> THEN obj
    ELSE AssignEntries(SetEntry(obj, Head(entries).key, Head(entries).value), Tail(entries))

\* the loop keeping the earlier value of a body field
RECURSIVE CollectParamsFirstWins(_, _, _)
CollectParamsFirstWins(parameters, args, acc) ==
    IF parameters = <<>> THEN acc
    ELSE CollectParamsFirstWins(Tail(parameters), args,
             IF ~HasArg(args, Head(parameters).name) THEN acc
             ELSE CASE Head(parameters).in = "query" ->
                         [acc EXCEPT !.queryParams =
                             SetEntry(@, Head(parameters).name,
                                      ArgOf(args, Head(parameters).name))]
                    [] Head(parameters).in = "body" ->
                         [acc EXCEPT !.bodyData =
                             AssignEntries(OwnEntries(ArgOf(args, Head(parameters).name)), @)]
                    [] OTHER -> acc)

\* tool.parameters.forEach(...): queryParams and bodyData after the loop
RECURSIVE CollectParams(_, _, _)
CollectParams(parameters, args, acc) ==
    IF parameters = <<>> THEN acc
    ELSE LET param == Head(parameters)
             next ==
                 IF ~HasArg(args, param.name) THEN acc
                 ELSE CASE param.in = "query" ->
                             [acc EXCEPT !.queryParams =
                                 SetEntry(@, param.name, ArgOf(args, param.name))]
                        [] param.in = "body" ->
                             [acc EXCEPT !.bodyData =
                                 AssignEntries(@, OwnEntries(ArgOf(args, param.name)))]
                        [] OTHER -> acc
         IN  CollectParams(Tail(parameters), args, next)

ContentTypeJson == <<[key |-> <<"Content-Type">>, value |-> <<"application/json">>]>>

\* requestConfig with data and the content type set whatever bodyData holds
RequestConfigAlwaysBody(tool, built, got) ==
    IF built.threw
    THEN [threw |-> TRUE, message |-> built.message]
    ELSE [threw |-> FALSE,
          request |->
              [method |-> tool.method,
               url |-> built.text,
               params |-> got.queryParams,
               hasData |-> TRUE,
               data |-> got.bodyData,
               headers |-> ContentTypeJson]]

\* requestConfig from the URL built and the parameters collected, or what
\* the try block threw before reaching the HTTP client
RequestConfig(tool, built, got) ==
    IF built.threw
    THEN [threw |-> TRUE, message |-> built.message]
    ELSE [threw |-> FALSE,
          request |->
              [method |-> tool.method,
               url |-> built.text,
               params |-> got.queryParams,
               hasData |-> Len(got.bodyData) > 0,
               data |-> got.bodyData,
               headers |-> IF Len(got.bodyData) > 0 THEN ContentTypeJson ELSE <<>>]]

requestConfigOf(cfg, doc, tool, args) ==
    RequestConfig(tool, buildUrl(cfg, doc, tool.path, args),
        CollectParams(tool.parameters, args, [queryParams |-> <<>>, bodyData |-> <<>>]))

\* the catch block reporting the failure message whether or not the failure
\* carries a response
catchResultMessageOnly(tool, error) ==
    [content |-> <<[type |-> "text",
                    text |-> <<"Error calling ">> \o tool.name \o <<": ">> \o error.message]>>,
     isError |-> TRUE]

\* the catch block
catchResult(tool, error) ==
    LET errorMessage ==
            IF error.hasResponse
            THEN <<"HTTP ">> \o error.status \o <<": ">> \o JsonStringify(error.data)
            ELSE error.message
    IN  [content |-> <<[type |-> "text",
                        text |-> <<"Error calling ">> \o tool.name \o <<": ">> \o errorMessage]>>,
         isError |-> TRUE]

NoResponse(message) ==
    [hasResponse |-> FALSE, status |-> <<>>, data |-> Str(<<>>), message |-> message]

\* callApiTool without the try block around buildUrl
SendOrCatchNoCatch(tool, rc) ==
    IF rc.threw
    THEN [kind |-> "throw", message |-> rc.message]
    ELSE [kind |-> "await", request |-> rc.request]

\* the try block up to the await: the request goes to the HTTP client, or the
\* catch block's result is returned
SendOrCatch(tool, rc) ==
    IF rc.threw
    THEN [kind |-> "return", result |-> catchResult(tool, NoResponse(rc.message))]
    ELSE [kind |-> "await", request |-> rc.request]

\* callApiTool refusing a bag that lacks a required parameter
callApiToolSendStrict(cfg, doc, tool, args) ==
    IF \E k \in DOMAIN tool.inputSchema.required :
           ~HasArg(args, tool.inputSchema.required[k])
    THEN [kind |-> "return",
          result |-> catchResult(tool, NoResponse(<<"Missing required parameter">>))]
    ELSE SendOrCatch(tool, requestConfigOf(cfg, doc, tool, args))

\* callApiTool up to `await this.httpClient.request(requestConfig)`
callApiToolSend(cfg, doc, tool, args) ==
    SendOrCatch(tool, requestConfigOf(cfg, doc, tool, args))

\* callApiTool from the settling of the HTTP client on
callApiToolSettle(tool, outcome) ==
    IF outcome.kind = "response"
    THEN [kind |-> "return",
          result |-> [content |-> <<[type |-> "text",
                                     text |-> JsonStringify(outcome.data)]>>]]
    ELSE [kind |-> "return", result |-> catchResult(tool, outcome.error)]

\* find answering with the last match
findToolLast(ts, name) ==
    LET hits == {i \in DOMAIN ts : ts[i].name = name}
    IN  IF hits = {} THEN 0 ELSE CHOOSE i \in hits : \A j \in hits : j <= i

\* this.tools.find(t => t.name === name): the index of the first match, or 0
findTool(ts, name) ==
    LET hits == {i \in DOMAIN ts : ts[i].name = name}
    IN  IF hits = {} THEN 0 ELSE CHOOSE i \in hits : \A j \in hits : i <= j

\* the handler falling back on the first descriptor for an unknown name
HandleFoundDefault(cfg, doc, ts, name, args, i) ==
    IF i = 0 /\ ts = <<>>
    THEN [kind |-> "throw", tool |-> 0,
          message |-> <<"Tool ">> \o name \o <<" not found">>]
    ELSE [tool |-> IF i = 0 THEN 1 ELSE i]
             @@ callApiToolSend(cfg, doc, ts[IF i = 0 THEN 1 ELSE i], args)

\* the call-tool handler once find has answered with the index i
HandleFound(cfg, doc, ts, name, args, i) ==
    IF i = 0
    THEN [kind |-> "throw", tool |-> 0,
          message |-> <<"Tool ">> \o name \o <<" not found">>]
    ELSE [tool |-> i] @@ callApiToolSend(cfg, doc, ts[i], args)

\* the call-tool handler up to its first suspension
callToolHandler(cfg, doc, ts, name, args) ==
    HandleFound(cfg, doc, ts, name, args, findTool(ts, name))

\* the list-tools handler
listToolsHandler(ts) ==
    [tools |-> [i \in DOMAIN ts |->
                   [name |-> ts[i].name,
                    description |-> ts[i].description,
                    inputSchema |-> ts[i].inputSchema]]]

(***************************************************************************)
(* Inputs of the pure functions.                                           *)
(***************************************************************************)
PathChars == {"/", "a", "-", "{", "}"}

\* the README's and the sample document's paths
PathUsers == <<"/","v","1","/","u","s","e","r","s">>
PathUsersSlash == PathUsers \o <<"/">>
PathUsersById == PathUsers \o <<"/","{","i","d","}">>
PathHostsByName == <<"/","v","1","/","h","o","s","t","s","/","{","n","a","m","e","}">>

ExamplePaths == {PathUsers, PathUsersSlash, PathUsersById, PathHostsByName}

EnumPaths == UNION {[1..k -> PathChars] : k \in 0..MaxPathLen}

PrefixMyapi == <<"m","y","a","p","i","_">>
PrefixInfra == <<"i","n","f","r","a","_">>
PrefixPetstore == <<"p","e","t","s","t","o","r","e","_">>

Prefixes == {<<>>, PrefixMyapi, PrefixInfra, PrefixPetstore}

IdFindPets == <<"f","i","n","d","P","e","t","s">>
IdUnsanitary == <<"g","e","t","-","a"," ","/","{","b","}">>

\* an operation as generateToolName and createToolFromOperation read it
Operation(id, summary, description, parameters) ==
    [isNull |-> FALSE, operationId |-> id, summary |-> summary,
     description |-> description, parameters |-> parameters]

NullOperation ==
    [isNull |-> TRUE, operationId |-> <<>>, summary |-> <<>>,
     description |-> <<>>, parameters |-> <<>>]

NameInputs ==
    [fn : {"generateToolName"},
     prefix : Prefixes,
     method : {get, post, <<"G","E","T">>},
     path : EnumPaths \cup ExamplePaths,
     operation : {Operation(id, <<>>, <<>>, <<>>) : id \in {<<>>, IdFindPets, IdUnsanitary}}]

NotRun == [done |-> FALSE]

Idle ==
    /\ pc = "idle"
    /\ config = [kind |-> "none", toolPrefix |-> <<>>, baseUrl |-> <<>>]
    /\ source = <<>>
    /\ swaggerDoc = <<>>
    /\ tools = <<>>
    /\ calls = <<>>
    /\ listed = <<>>
    /\ httpLog = <<>>

(***************************************************************************)
(* SpecName: generateToolName applied to every enumerated input.           *)
(***************************************************************************)
InitName == Idle /\ fnIn \in NameInputs /\ fnOut = NotRun

ApplyGenerateToolName ==
    /\ fnIn.fn = "generateToolName"
    /\ ~fnOut.done
    /\ fnOut' = [done |-> TRUE,
                 value |-> generateToolName(fnIn.prefix, fnIn.method, fnIn.path, fnIn.operation)]
    /\ UNCHANGED <<serverVars, fnIn>>

NextName == ApplyGenerateToolName

SpecName == InitName /\ [][NextName]_vars

\* The statement of the derived name, written from the segments of the path:
\* a segment is a maximal run of characters other than "/".
SegStarts(path) ==
    {i \in DOMAIN path : path[i] /= "/" /\ (i = 1 \/ path[i - 1] = "/")}

SegEnd(path, i) ==
    CHOOSE j \in i..Len(path) :
        /\ \A k \in i..j : path[k] /= "/"
        /\ (j = Len(path) \/ path[j + 1] = "/")

NamedSegment(seg) ==
    IF Len(seg) >= 2 /\ seg[1] = "{" /\ seg[Len(seg)] = "}"
    THEN <<"b","y","_">> \o [k \in 1..(Len(seg) - 2) |-> seg[k + 1]]
    ELSE [k \in DOMAIN seg |->
            IF seg[k] \in Range(UpperLetters) \cup Range(LowerLetters) \cup Digits
            THEN seg[k] ELSE "_"]

RECURSIVE JoinedFrom(_, _)
JoinedFrom(path, from) ==
    LET later == {i \in SegStarts(path) : i >= from}
    IN  IF later = {} THEN <<>>
        ELSE LET i == CHOOSE m \in later : \A n \in later : m <= n
                 j == SegEnd(path, i)
                 rest == JoinedFrom(path, j + 1)
             IN  NamedSegment(SubSeq(path, i, j))
                     \o (IF {n \in later : n > j} = {} THEN <<>> ELSE <<"_">> \o rest)

NameGetUsers == <<"m","y","a","p","i","_","g","e","t","_","v","1","_","u","s","e","r","s">>
NameGetHostsByName ==
    <<"i","n","f","r","a","_","g","e","t","_","v","1","_","h","o","s","t","s","_","b","y","_","n","a","m","e">>

\* C8: for an operation without operationId the name is prefix +
\* lowercase(method) + "_" + the non-empty segments joined with "_", {x}
\* turned into by_x and every other character outside [A-Za-z0-9] into "_";
\* a trailing slash changes nothing, and the README's two examples come out
\* as documented.
C8_DerivedName ==
    (fnOut.done /\ fnIn.fn = "generateToolName" /\ fnIn.operation.operationId = <<>>) =>
        /\ fnOut.value = fnIn.prefix \o toLowerCase(fnIn.method) \o <<"_">>
                            \o JoinedFrom(fnIn.path, 1)
        /\ (fnIn.path /= <<>> /\ fnIn.path[Len(fnIn.path)] = "/") =>
              fnOut.value = generateToolName(fnIn.prefix, fnIn.method,
                                SubSeq(fnIn.path, 1, Len(fnIn.path) - 1), fnIn.operation)
        /\ (fnIn.prefix = PrefixMyapi /\ toLowerCase(fnIn.method) = get
                /\ fnIn.path = PathUsersSlash) => fnOut.value = NameGetUsers
        /\ (fnIn.prefix = PrefixInfra /\ toLowerCase(fnIn.method) = get
                /\ fnIn.path = PathHostsByName) => fnOut.value = NameGetHostsByName

C8_Witness ==
    /\ fnOut.done
    /\ fnIn.fn = "generateToolName"
    /\ fnIn.operation.operationId = <<>>
    /\ fnIn.prefix = PrefixMyapi
    /\ fnIn.method = <<"G","E","T">>
    /\ fnIn.path = PathUsersSlash
    /\ fnOut.value = NameGetUsers

\* C9: with an operationId the name is prefix + operationId, character for
\* character, whatever the method and the path.
C9_NameFromId ==
    (fnOut.done /\ fnIn.fn = "generateToolName" /\ fnIn.operation.operationId /= <<>>) =>
        /\ Len(fnOut.value) = Len(fnIn.prefix) + Len(fnIn.operation.operationId)
        /\ \A i \in 1..Len(fnIn.prefix) : fnOut.value[i] = fnIn.prefix[i]
        /\ \A i \in 1..Len(fnIn.operation.operationId) :
              fnOut.value[Len(fnIn.prefix) + i] = fnIn.operation.operationId[i]

C9_Witness ==
    /\ fnOut.done
    /\ fnIn.fn = "generateToolName"
    /\ fnIn.operation.operationId = IdUnsanitary
    /\ fnIn.prefix = PrefixPetstore
    /\ fnIn.path = PathUsersById
    /\ fnOut.value = PrefixPetstore \o IdUnsanitary

(***************************************************************************)
(* SpecSchema: createToolFromOperation applied to every enumerated         *)
(* parameter list.                                                         *)
(***************************************************************************)
NameId == <<"i","d">>
NameLimit == <<"l","i","m","i","t">>
TextPetId == <<"P","e","t"," ","i","d">>

DeclaredTypes == {"", "string", "integer", "number", "boolean", "array", "object", "file"}

Param(name, in, type, schemaType, description, required) ==
    [name |-> name, in |-> in, type |-> type, schemaType |-> schemaType,
     description |-> description, required |-> required]

\* parameters that vary the declared type and the type of the schema, and
\* parameters that vary the location, the description and the required flag
EnumParams ==
    {Param(n, "query", t, st, <<>>, FALSE) :
        n \in {NameId, NameLimit}, t \in DeclaredTypes, st \in {"", "object", "integer"}}
    \cup
    {Param(n, in, "integer", "", d, r) :
        n \in {NameId, NameLimit}, in \in {"path", "query", "body", "header"},
        d \in {<<>>, TextPetId}, r \in BOOLEAN}

EnumParamLists == UNION {[1..k -> EnumParams] : k \in 0..MaxParams}

SchemaInputs ==
    [fn : {"createToolFromOperation"},
     name : {IdFindPets},
     method : {get},
     path : {PathUsersById},
     operation : {Operation(<<>>, <<>>, <<>>, ps) : ps \in EnumParamLists}]

InitSchema == Idle /\ fnIn \in SchemaInputs /\ fnOut = NotRun

ApplyCreateToolFromOperation ==
    /\ fnIn.fn = "createToolFromOperation"
    /\ ~fnOut.done
    /\ fnOut' = [done |-> TRUE,
                 value |-> createToolFromOperation(fnIn.name, fnIn.method, fnIn.path,
                                                   fnIn.operation)]
    /\ UNCHANGED <<serverVars, fnIn>>

NextSchema == ApplyCreateToolFromOperation

SpecSchema == InitSchema /\ [][NextSchema]_vars

\* the rule table of the Type Mapper as the claim states it
TableType(declared) ==
    IF declared = "integer" THEN "number"
    ELSE IF declared \in {"boolean", "array", "object"} THEN declared
    ELSE "string"

DefaultDescription(name) == name \o <<" ","p","a","r","a","m","e","t","e","r">>

SchemaDone == fnOut.done /\ fnIn.fn = "createToolFromOperation"

\* the names of the parameters whose required flag is true, in parameter order
RequiredNames(ps) ==
    LET idx == SelectSeq([i \in DOMAIN ps |-> i], LAMBDA i : ps[i].required)
    IN  [k \in DOMAIN idx |-> ps[idx[k]].name]

\* C10 as stated: every declared parameter has a property under its name whose
\* type is the table's image of parameter.type (a missing type giving string)
\* and whose description is the parameter's or "<name> parameter"; required
\* lists the required parameters' names in order.
C10_AsStated ==
    SchemaDone =>
        LET ps == fnIn.operation.parameters
            schema == fnOut.value.inputSchema
        IN  /\ \A i \in DOMAIN ps :
                  /\ ps[i].name \in DOMAIN schema.properties
                  /\ schema.properties[ps[i].name].type = TableType(ps[i].type)
                  /\ schema.properties[ps[i].name].description =
                        (IF ps[i].description /= <<>> THEN ps[i].description
                         ELSE DefaultDescription(ps[i].name))
            /\ schema.required = RequiredNames(ps)

\* C10 amended: the schema has one property per parameter name, taken from
\* the last parameter declared with that name; its type is the table's image
\* of parameter.type, or of parameter.schema.type when parameter.type is
\* missing, or string when both are missing; description and required list as
\* stated.
C10_Schema ==
    SchemaDone =>
        LET ps == fnIn.operation.parameters
            schema == fnOut.value.inputSchema
        IN  /\ DOMAIN schema.properties = {ps[i].name : i \in DOMAIN ps}
            /\ \A i \in DOMAIN ps :
                  (\A j \in DOMAIN ps : j > i => ps[j].name /= ps[i].name) =>
                      /\ schema.properties[ps[i].name].type =
                            TableType(IF ps[i].type /= "" THEN ps[i].type
                                      ELSE ps[i].schemaType)
                      /\ schema.properties[ps[i].name].description =
                            (IF ps[i].description /= <<>> THEN ps[i].description
                             ELSE DefaultDescription(ps[i].name))
            /\ schema.required = RequiredNames(ps)
            /\ schema.type = "object"

\* a body parameter typed by its schema only, after a required integer
C10_Witness ==
    /\ SchemaDone
    /\ Len(fnIn.operation.parameters) = 2
    /\ fnIn.operation.parameters[1] = Param(NameLimit, "query", "integer", "", <<>>, TRUE)
    /\ fnIn.operation.parameters[2] = Param(NameId, "query", "", "object", <<>>, FALSE)
    /\ fnOut.value.inputSchema.properties[NameLimit].type = "number"
    /\ fnOut.value.inputSchema.properties[NameId].type = "object"
    /\ fnOut.value.inputSchema.required = <<NameLimit>>

(***************************************************************************)
(* SpecCatalog: generateTools applied to every enumerated API description. *)
(***************************************************************************)
PathA == <<"/","a">>
PathASlash == <<"/","a","/">>
PathById == <<"/","a","/","{","i","d","}">>

CatalogPaths == {PathA, PathASlash, PathById}

ParamId == Param(NameId, "path", "integer", "", <<>>, TRUE)

\* the entries a path item is drawn from: one operation per key
CatalogEntries ==
    {[key |-> get, operation |-> Operation(<<>>, <<>>, <<>>, <<>>)],
     [key |-> post, operation |-> Operation(IdFindPets, TextPetId, <<>>, <<ParamId>>)],
     [key |-> options, operation |-> Operation(<<>>, <<>>, <<>>, <<>>)]}

\* an object is a sequence of entries with distinct keys
EnumItems ==
    {item \in UNION {[1..k -> CatalogEntries] : k \in 0..MaxKeys} :
        \A i, j \in DOMAIN item : i /= j => item[i].key /= item[j].key}

EnumPathsObjects ==
    {paths \in UNION {[1..k -> [path : CatalogPaths, item : EnumItems]] : k \in 0..MaxPaths} :
        \A i, j \in DOMAIN paths : i /= j => paths[i].path /= paths[j].path}

\* an API description as the server reads it
Doc(hasPaths, paths, schemes, host, basePath) ==
    [hasPaths |-> hasPaths, paths |-> paths, schemes |-> schemes,
     host |-> host, basePath |-> basePath]

\* schemes is an array when declared
NoSchemes == [declared |-> FALSE, list |-> <<>>]

DocNoPaths == Doc(FALSE, <<>>, NoSchemes, <<>>, <<>>)

EnumDocs == {Doc(TRUE, paths, NoSchemes, <<>>, <<>>) : paths \in EnumPathsObjects} \cup {DocNoPaths}

Config(kind, toolPrefix, baseUrl) ==
    [kind |-> kind, toolPrefix |-> toolPrefix, baseUrl |-> baseUrl]

CatalogInputs ==
    [fn : {"generateTools"},
     config : {Config("file", tp, <<>>) : tp \in {<<>>, <<"p">>}},
     doc : EnumDocs]

InitCatalog == Idle /\ fnIn \in CatalogInputs /\ fnOut = NotRun

ApplyGenerateTools ==
    /\ fnIn.fn = "generateTools"
    /\ ~fnOut.done
    /\ fnOut' = [done |-> TRUE, value |-> generateTools(fnIn.config, fnIn.doc, <<>>)]
    /\ UNCHANGED <<serverVars, fnIn>>

NextCatalog == ApplyGenerateTools

SpecCatalog == InitCatalog /\ [][NextCatalog]_vars

CatalogDone == fnOut.done /\ fnIn.fn = "generateTools" /\ ~fnOut.value.threw

\* the (path, key) pairs of a description whose key is a tool method
ToolPairs(paths) ==
    {pr \in UNION {{<<i, j>> : j \in DOMAIN paths[i].item} : i \in DOMAIN paths} :
        paths[pr[1]].item[pr[2]].key \in {get, post, put, delete, patch}}

\* the position of a pair among the tool pairs, paths first
RankOf(paths, pr) ==
    Cardinality({q \in ToolPairs(paths) :
                    q[1] < pr[1] \/ (q[1] = pr[1] /\ q[2] <= pr[2])})

\* C7: the catalog holds one descriptor per (path, key) pair whose key is
\* get, post, put, delete or patch and none for another key, in the order of
\* the paths and of the keys within a path; each carries its pair's path,
\* upper-cased method, parameter list and generated name.
C7_Catalog ==
    CatalogDone =>
        LET paths == fnIn.doc.paths
            built == fnOut.value.tools
        IN  /\ Len(built) = Cardinality(ToolPairs(paths))
            /\ \A pr \in ToolPairs(paths) :
                  LET t == built[RankOf(paths, pr)]
                      e == paths[pr[1]].item[pr[2]]
                  IN  /\ t.path = paths[pr[1]].path
                      /\ t.method = toUpperCase(e.key)
                      /\ t.parameters = e.operation.parameters
                      /\ t.name = generateToolName(PrefixOf(fnIn.config), e.key,
                                                   paths[pr[1]].path, e.operation)

\* a description with a skipped key before a tool key, and a second path
C7_Witness ==
    /\ CatalogDone
    /\ Len(fnIn.doc.paths) = 2
    /\ Len(fnIn.doc.paths[1].item) = 2
    /\ fnIn.doc.paths[1].item[1].key = options
    /\ fnIn.doc.paths[1].item[2].key = post
    /\ Len(fnIn.doc.paths[2].item) = 2
    /\ fnIn.doc.paths[2].item[1].key = get
    /\ fnIn.doc.paths[2].item[2].key = options
    /\ Len(fnOut.value.tools) = 2
    /\ fnOut.value.tools[1].method = <<"P","O","S","T">>
    /\ fnOut.value.tools[2].method = <<"G","E","T">>

(***************************************************************************)
(* Spec: the server from main to the serving of list-tools and call-tool   *)
(* requests.                                                               *)
(***************************************************************************)
TextSecond == <<"s","e","c","o","n","d">>
NameStatus == <<"s","t","a","t","u","s">>
NameBody == <<"b","o","d","y">>
NameName == <<"n","a","m","e">>
TextFluffy == <<"F","l","u","f","f","y">>
TextHost == <<"h">>
TextApi == <<"/","a","p","i">>
NameNope == <<"n","o","p","e">>

\* GET /a (findPets, a query parameter), POST /a (a body parameter typed
\* by its schema), an OPTIONS entry, and GET /a/{id}
DocPets ==
    Doc(TRUE,
        <<[path |-> PathA,
           item |-> <<[key |-> get,
                       operation |-> Operation(IdFindPets, TextPetId, <<>>,
                           <<Param(NameStatus, "query", "string", "", <<>>, FALSE)>>)],
                      [key |-> options,
                       operation |-> Operation(<<>>, <<>>, <<>>, <<>>)],
                      [key |-> post,
                       operation |-> Operation(<<>>, <<>>, <<>>,
                           <<Param(NameBody, "body", "", "object", <<>>, TRUE)>>)]>>],
          [path |-> PathById,
           item |-> <<[key |-> get,
                       operation |-> Operation(<<>>, <<>>, <<>>, <<ParamId>>)]>>]>>,
        [declared |-> TRUE, list |-> <<TextHttps>>], TextHost, TextApi)

\* two operations that generate the same name, get_a
DocCollide ==
    Doc(TRUE,
        <<[path |-> PathA,
           item |-> <<[key |-> get, operation |-> Operation(<<>>, <<>>, <<>>, <<>>)]>>],
          [path |-> PathASlash,
           item |-> <<[key |-> get,
                       operation |-> Operation(<<>>, TextSecond, <<>>, <<>>)]>>]>>,
        NoSchemes, <<>>, <<>>)

\* a null operation after a well-formed one
DocNullOperation ==
    Doc(TRUE,
        <<[path |-> PathA,
           item |-> <<[key |-> get, operation |-> Operation(<<>>, <<>>, <<>>, <<>>)],
                      [key |-> post, operation |-> NullOperation]>>]>>,
        NoSchemes, <<>>, <<>>)

SampleDocs == {DocPets, DocCollide, DocNullOperation, DocNoPaths}

BaseUrlApi == <<"h","t","t","p","s",":","/","/","h","/","a","p","i">>
BaseUrlNoScheme == <<"h","/","a","p","i">>

Configs ==
    {Config("none", <<>>, <<>>),
     Config("url", <<>>, <<>>),
     Config("file", <<"p">>, BaseUrlApi),
     Config("file", <<>>, BaseUrlNoScheme)}

\* what the configured source delivers: a dereferenced document, or a failure
\* of the fetch, the parse or the dereferencing
Sources == {[ok |-> TRUE, doc |-> d] : d \in SampleDocs} \cup {[ok |-> FALSE, doc |-> DocNoPaths]}

SampleArgs ==
    {<<>>,
     <<[key |-> NameId, value |-> Num(<<"7">>)],
       [key |-> NameStatus, value |-> Str(<<"a"," ","b">>)],
       [key |-> NameBody, value |-> Obj(<<[key |-> NameName, value |-> Str(TextFluffy)]>>)]>>,
     <<[key |-> NameId, value |-> Str(<<LoneSurrogate>>)]>>}

HttpOutcomes ==
    {[kind |-> "response", data |-> Obj(<<[key |-> NameId, value |-> Num(<<"7">>)]>>)],
     [kind |-> "error",
      error |-> [hasResponse |-> TRUE, status |-> <<"4","0","4">>,
                 data |-> Str(<<"n","o">>), message |-> <<"Request failed with status code 404">>]],
     [kind |-> "error", error |-> NoResponse(<<"connect ECONNREFUSED">>)]}

NoDoc == [loaded |-> FALSE]

NoInput == [fn |-> "none"]

Init ==
    /\ pc = "main"
    /\ config \in Configs
    /\ source \in Sources
    /\ swaggerDoc = NoDoc
    /\ tools = <<>>
    /\ calls = <<>>
    /\ listed = <<>>
    /\ httpLog = <<>>
    /\ fnIn = NoInput
    /\ fnOut = NotRun

\* main up to the construction of the server: without a document source it
\* exits; the constructor leaves this.tools empty and registers the handlers
Main ==
    /\ pc = "main"
    /\ pc' = IF config.kind = "none" THEN "exited" ELSE "constructed"
    /\ UNCHANGED <<config, source, swaggerDoc, tools, calls, listed, httpLog, fnIn, fnOut>>

\* initialize: loadSwaggerDoc; a failure is rethrown, caught by main, and the
\* process exits
LoadSwaggerDoc ==
    /\ pc = "constructed"
    /\ IF source.ok
       THEN pc' = "loaded" /\ swaggerDoc' = [loaded |-> TRUE, doc |-> source.doc]
       ELSE pc' = "exited" /\ UNCHANGED swaggerDoc
    /\ UNCHANGED <<config, source, tools, calls, listed, httpLog, fnIn, fnOut>>

\* initialize: generateTools; a throw is caught by main and the process exits
GenerateTools ==
    /\ pc = "loaded"
    /\ LET r == generateTools(config, swaggerDoc.doc, tools)
       IN  /\ tools' = r.tools
           /\ pc' = IF r.threw THEN "exited" ELSE "initialized"
    /\ UNCHANGED <<config, source, swaggerDoc, calls, listed, httpLog, fnIn, fnOut>>

\* main calling run without awaiting initialize
RunBeforeInitialize ==
    /\ pc \in {"constructed", "loaded", "initialized"}
    /\ pc' = "connected"
    /\ UNCHANGED <<config, source, swaggerDoc, tools, calls, listed, httpLog, fnIn, fnOut>>

\* run: the server is connected to the stdio transport
Run ==
    /\ pc = "initialized"
    /\ pc' = "connected"
    /\ UNCHANGED <<config, source, swaggerDoc, tools, calls, listed, httpLog, fnIn, fnOut>>

\* a list-tools request is served
ListTools ==
    /\ pc = "connected"
    /\ Len(listed) < MaxLists
    /\ listed' = Append(listed, listToolsHandler(tools))
    /\ UNCHANGED <<pc, config, source, swaggerDoc, tools, calls, httpLog, fnIn, fnOut>>

\* what the protocol layer records of a call whose handler reached h
CallRecord(name, args, h) ==
    [name |-> name, args |-> args, tool |-> h.tool] @@
        (CASE h.kind = "throw" -> [state |-> "failed", message |-> h.message]
           [] h.kind = "return" -> [state |-> "returned", result |-> h.result]
           [] h.kind = "await" -> [state |-> "inflight"])

Serve(name, args, h) ==
    /\ calls' = Append(calls, CallRecord(name, args, h))
    /\ httpLog' = IF h.kind = "await"
                  THEN Append(httpLog, [call |-> Len(calls) + 1, request |-> h.request])
                  ELSE httpLog

\* callApiTool storing the substituted path in the descriptor
CallToolRewritingPath(name, args) ==
    /\ pc = "connected"
    /\ Len(calls) < MaxCalls
    /\ Serve(name, args, callToolHandler(config, swaggerDoc.doc, tools, name, args))
    /\ tools' = [t \in DOMAIN tools |->
                    IF tools[t].name = name
                    THEN [tools[t] EXCEPT !.path = SubstitutePath(Built(@), args).text]
                    ELSE tools[t]]
    /\ UNCHANGED <<pc, config, source, swaggerDoc, listed, fnIn, fnOut>>

\* a call-tool request is served up to its first suspension: it fails with
\* the handler's throw, returns the catch block's result, or waits for the
\* HTTP client
CallTool(name, args) ==
    /\ pc = "connected"
    /\ Len(calls) < MaxCalls
    /\ Serve(name, args, callToolHandler(config, swaggerDoc.doc, tools, name, args))
    /\ UNCHANGED <<pc, config, source, swaggerDoc, tools, listed, fnIn, fnOut>>

\* callApiTool sending the request once more after a rejection
HttpSettleRetry(i, outcome) ==
    /\ pc = "connected"
    /\ i \in DOMAIN calls
    /\ calls[i].state = "inflight"
    /\ IF outcome.kind = "error" /\ Cardinality({k \in DOMAIN httpLog : httpLog[k].call = i}) < 2
       THEN /\ httpLog' = Append(httpLog,
                [call |-> i,
                 request |-> httpLog[CHOOSE k \in DOMAIN httpLog : httpLog[k].call = i].request])
            /\ UNCHANGED calls
       ELSE /\ calls' = [calls EXCEPT ![i] =
                           CallRecord(@.name, @.args,
                               [tool |-> @.tool] @@ callApiToolSettle(tools[@.tool], outcome))]
            /\ UNCHANGED httpLog
    /\ UNCHANGED <<pc, config, source, swaggerDoc, tools, listed, fnIn, fnOut>>

\* the HTTP client settles the request of call i and callApiTool resumes
HttpSettle(i, outcome) ==
    /\ pc = "connected"
    /\ i \in DOMAIN calls
    /\ calls[i].state = "inflight"
    /\ calls' = [calls EXCEPT ![i] =
                    CallRecord(@.name, @.args,
                        [tool |-> @.tool] @@ callApiToolSettle(tools[@.tool], outcome))]
    /\ UNCHANGED <<pc, config, source, swaggerDoc, tools, listed, httpLog, fnIn, fnOut>>

\* the names a client asks for: those it was listed, and one it was not
CallNames == {tools[i].name : i \in DOMAIN tools} \cup {NameNope}

Next ==
    \/ Main
    \/ LoadSwaggerDoc
    \/ GenerateTools
    \/ Run
    \/ ListTools
    \/ \E name \in CallNames, args \in SampleArgs : CallTool(name, args)
    \/ \E i \in 1..MaxCalls, outcome \in HttpOutcomes : HttpSettle(i, outcome)

Spec == Init /\ [][Next]_vars

(***************************************************************************)
(* Properties of the server.                                               *)
(***************************************************************************)
\* the name matches no descriptor of the catalog
Unknown(name) == \A t \in DOMAIN tools : tools[t].name /= name

IsResult(r) ==
    /\ "content" \in DOMAIN r
    /\ Len(r.content) >= 1
    /\ \A k \in DOMAIN r.content : r.content[k].type = "text"

\* C1: a call of a cataloged tool never ends with an error thrown to the
\* protocol layer; when it has ended, it has returned a result with a content
\* list, whether the URL could not be built, the HTTP client answered, or it
\* rejected with or without a response.
C1_AlwaysResult ==
    \A i \in DOMAIN calls :
        ~Unknown(calls[i].name) =>
            /\ calls[i].state \in {"inflight", "returned"}
            /\ calls[i].state = "returned" => IsResult(calls[i].result)

\* one call returned after encodeURIComponent threw, another after the HTTP
\* client rejected without a response
C1_Witness ==
    /\ Len(calls) = 2
    /\ calls[1].state = "returned"
    /\ \E k \in DOMAIN calls[1].args : calls[1].args[k].value = Str(<<LoneSurrogate>>)
    /\ httpLog /= <<>>
    /\ httpLog[1].call = 2
    /\ calls[2].state = "returned"
    /\ "isError" \in DOMAIN calls[2].result
    /\ IsResult(calls[1].result)
    /\ IsResult(calls[2].result)

\* C2: a call-tool request for a name that is not in the catalog fails that
\* request and nothing else: no HTTP request is issued, the catalog, the
\* earlier calls and the connection stay as they were.
C2_UnknownName ==
    [][(Len(calls') = Len(calls) + 1 /\ Unknown(calls'[Len(calls')].name)) =>
          /\ calls'[Len(calls')].state = "failed"
          /\ SubSeq(calls', 1, Len(calls)) = calls
          /\ httpLog' = httpLog
          /\ tools' = tools
          /\ listed' = listed
          /\ pc' = "connected"]_vars

\* after a failed request for an unknown name, a cataloged tool is called
\* and answers
C2_Witness ==
    /\ pc = "connected"
    /\ Len(calls) = 2
    /\ Unknown(calls[1].name)
    /\ calls[1].state = "failed"
    /\ ~Unknown(calls[2].name)
    /\ calls[2].state = "returned"
    /\ Len(httpLog) = 1

\* C3: the server is connected only with the document loaded and the whole
\* catalog built; requests are served only when connected, every list-tools
\* response holds the whole catalog, and without a document source, a
\* loadable document or a path collection the server never connects.
C3_ConnectAfterCatalog ==
    /\ pc = "connected" =>
          /\ swaggerDoc.loaded
          /\ swaggerDoc.doc.hasPaths
          /\ Len(tools) = Cardinality(ToolPairs(swaggerDoc.doc.paths))
    /\ (calls /= <<>> \/ listed /= <<>>) => pc = "connected"
    /\ \A k \in DOMAIN listed :
          Len(listed[k].tools) = Cardinality(ToolPairs(swaggerDoc.doc.paths))
    /\ (config.kind = "none" \/ ~source.ok \/ ~source.doc.hasPaths) => pc /= "connected"

\* a catalog of three descriptors, listed and called
C3_Witness ==
    /\ pc = "connected"
    /\ Len(tools) = 3
    /\ listed /= <<>>
    /\ calls /= <<>>
    /\ calls[1].state = "returned"

\* the abort that leaves a partly built catalog behind
C3_PartialCatalogAborted ==
    /\ pc = "exited"
    /\ swaggerDoc.loaded
    /\ Len(tools) = 1
    /\ Cardinality(ToolPairs(swaggerDoc.doc.paths)) = 2

\* C4: once connected the catalog never changes, and every list-tools
\* response is the sequence of (name, description, inputSchema) of the
\* catalog, whatever requests were served in between.
C4_CatalogFrozen ==
    [][pc = "connected" =>
          /\ tools' = tools
          /\ \A k \in DOMAIN listed' :
                /\ Len(listed'[k].tools) = Len(tools)
                /\ \A t \in DOMAIN tools :
                      /\ listed'[k].tools[t].name = tools[t].name
                      /\ listed'[k].tools[t].description = tools[t].description
                      /\ listed'[k].tools[t].inputSchema = tools[t].inputSchema]_vars

\* two list-tools responses, a call returned while an earlier one is in flight
C4_Witness ==
    /\ pc = "connected"
    /\ Len(listed) = 2
    /\ Len(calls) = 2
    /\ calls[1].state = "inflight"
    /\ calls[2].state = "returned"
    /\ ~Unknown(calls[2].name)

\* C5: no two descriptors of the catalog a connected server holds have the
\* same name.
C5_UniqueNames ==
    pc = "connected" =>
        \A i, j \in DOMAIN tools : i /= j => tools[i].name /= tools[j].name

\* C6: both descriptors of a repeated name are kept and listed, and a call
\* of that name goes to the first descriptor of the name in catalog order:
\* the request sent is the first descriptor's.
C6_FirstMatch ==
    /\ pc = "connected" => Len(tools) = Cardinality(ToolPairs(swaggerDoc.doc.paths))
    /\ \A k \in DOMAIN listed : Len(listed[k].tools) = Len(tools)
    /\ \A i \in DOMAIN calls :
          ~Unknown(calls[i].name) =>
              /\ calls[i].tool \in DOMAIN tools
              /\ tools[calls[i].tool].name = calls[i].name
              /\ \A t \in 1..(calls[i].tool - 1) : tools[t].name /= calls[i].name
    /\ \A k \in DOMAIN httpLog :
          LET first == CHOOSE t \in DOMAIN tools :
                          /\ tools[t].name = calls[httpLog[k].call].name
                          /\ \A u \in 1..(t - 1) : tools[u].name /= calls[httpLog[k].call].name
          IN  /\ httpLog[k].request.method = tools[first].method
              /\ httpLog[k].request.url =
                    buildUrl(config, swaggerDoc.doc, tools[first].path,
                             calls[httpLog[k].call].args).text

UrlLocalhostA == <<"h","t","t","p","s",":","/","/","l","o","c","a","l","h","o","s","t","/","a">>

\* GET /a and GET /a/ are both named get_a; get_a is listed twice and the
\* call is sent to /a
C6_Witness ==
    /\ pc = "connected"
    /\ Len(tools) = 2
    /\ tools[1].name = tools[2].name
    /\ tools[1].path = PathA
    /\ tools[2].path = PathASlash
    /\ listed /= <<>>
    /\ Len(listed[1].tools) = 2
    /\ listed[1].tools[1].name = listed[1].tools[2].name
    /\ calls /= <<>>
    /\ calls[1].name = tools[2].name
    /\ calls[1].tool = 1
    /\ httpLog /= <<>>
    /\ httpLog[1].request.url = UrlLocalhostA

\* C16: a call-tool request hands at most one request to the HTTP client:
\* the log of outbound requests grows only by the step that receives a call,
\* by one request, built from the descriptor called and from the argument
\* bag of that call; a step in which the client answers or rejects adds
\* none, and no logged request is ever changed.
C16_OneRequest ==
    [][/\ Len(httpLog') >= Len(httpLog)
       /\ SubSeq(httpLog', 1, Len(httpLog)) = httpLog
       /\ \A i \in DOMAIN calls' :
             Cardinality({k \in DOMAIN httpLog' : httpLog'[k].call = i}) <= 1
       /\ Len(httpLog') > Len(httpLog) =>
             /\ Len(httpLog') = Len(httpLog) + 1
             /\ Len(calls') = Len(calls) + 1
             /\ httpLog'[Len(httpLog')].call = Len(calls')
             /\ calls'[Len(calls')].tool \in DOMAIN tools
             /\ httpLog'[Len(httpLog')].request =
                   requestConfigOf(config, swaggerDoc.doc,
                                   tools[calls'[Len(calls')].tool],
                                   calls'[Len(calls')].args).request]_vars

\* the same tool called twice with different bags: the first request was
\* rejected and not sent again, the second request is not the first one
C16_Witness ==
    /\ Len(calls) = 2
    /\ calls[1].name = calls[2].name
    /\ calls[1].args /= calls[2].args
    /\ calls[1].state = "returned"
    /\ "isError" \in DOMAIN calls[1].result
    /\ calls[2].state = "inflight"
    /\ Len(httpLog) = 2
    /\ httpLog[1].call = 1
    /\ httpLog[2].call = 2
    /\ httpLog[1].request /= httpLog[2].request

(***************************************************************************)
(* SpecRequest: callApiTool applied to descriptors built by                *)
(* createToolFromOperation and to sample argument bags, then resumed with  *)
(* each outcome of the HTTP client.                                        *)
(***************************************************************************)
NameExtra == <<"e","x","t","r","a">>
NameToken == <<"t","o","k","e","n">>
NameAge == <<"a","g","e">>
TextRex == <<"R","e","x">>
PathIdId == <<"/","{","i","d","}","/","{","i","d","}">>

ParamStatus == Param(NameStatus, "query", "string", "", <<>>, FALSE)
ParamLimit == Param(NameLimit, "query", "integer", "", <<>>, TRUE)
ParamBody == Param(NameBody, "body", "", "object", <<>>, TRUE)
ParamExtra == Param(NameExtra, "body", "", "object", <<>>, FALSE)
ParamToken == Param(NameToken, "header", "string", "", <<>>, FALSE)

RequestParams == {ParamId, ParamStatus, ParamLimit, ParamBody, ParamExtra, ParamToken}

RequestParamLists == UNION {[1..k -> RequestParams] : k \in 0..MaxParams}

RequestPaths == {PathA, PathById, PathIdId}

\* the descriptors are those createToolFromOperation builds
RequestTools ==
    {createToolFromOperation(IdFindPets, post, path, Operation(IdFindPets, <<>>, <<>>, ps)) :
        path \in RequestPaths, ps \in RequestParamLists}

ObjFluffy == Obj(<<[key |-> NameName, value |-> Str(TextFluffy)]>>)

ObjRex ==
    Obj(<<[key |-> NameName, value |-> Str(TextRex)],
          [key |-> NameAge, value |-> Num(<<"3">>)]>>)

ArgsNone == <<>>

ArgsId == <<[key |-> NameId, value |-> Num(<<"7">>)]>>

\* a value for every parameter, and one for a name that is not declared
ArgsFull ==
    <<[key |-> NameId, value |-> Num(<<"7">>)],
      [key |-> NameStatus, value |-> Str(<<"a"," ","b">>)],
      [key |-> NameLimit, value |-> Num(<<"5">>)],
      [key |-> NameBody, value |-> ObjFluffy],
      [key |-> NameExtra, value |-> ObjRex],
      [key |-> NameToken, value |-> Str(<<"t">>)],
      [key |-> NameNope, value |-> Str(<<"x">>)]>>

\* values of other types than the declared ones, and none for id
ArgsMistyped ==
    <<[key |-> NameLimit, value |-> Str(<<"x">>)],
      [key |-> NameStatus, value |-> ObjRex],
      [key |-> NameBody, value |-> Str(<<"a","b">>)],
      [key |-> NameExtra, value |-> Num(<<"3">>)]>>

ArgsDots == <<[key |-> NameId, value |-> Str(<<".",".">>)]>>

ArgsSurrogate == <<[key |-> NameId, value |-> Str(<<LoneSurrogate>>)]>>

RequestArgs == {ArgsNone, ArgsId, ArgsFull, ArgsMistyped, ArgsDots, ArgsSurrogate}

DocPlain == Doc(TRUE, <<>>, NoSchemes, <<>>, <<>>)

RequestInputs ==
    [fn : {"callApiTool"},
     config : {Config("file", <<>>, b) : b \in {<<>>, BaseUrlApi, BaseUrlNoScheme}},
     doc : {DocPlain},
     tool : RequestTools,
     args : RequestArgs]

InitRequest == Idle /\ fnIn \in RequestInputs /\ fnOut = NotRun

\* what is known of the call once callApiTool has reached h
Reached(h, requests) ==
    [done |-> h.kind = "return", requests |-> requests, value |-> h]

Suspended(h) ==
    Reached(h, IF h.kind = "await" THEN <<h.request>> ELSE <<>>)

\* callApiTool runs to the await of the HTTP client, or to its return
ApplyCallApiTool ==
    /\ fnIn.fn = "callApiTool"
    /\ fnOut = NotRun
    /\ fnOut' = Suspended(callApiToolSend(fnIn.config, fnIn.doc, fnIn.tool, fnIn.args))
    /\ UNCHANGED <<serverVars, fnIn>>

\* the HTTP client settles and callApiTool runs to its return
ApplyHttpSettle(outcome) ==
    /\ fnIn.fn = "callApiTool"
    /\ fnOut /= NotRun
    /\ ~fnOut.done
    /\ fnOut' = [outcome |-> outcome]
                    @@ Reached(callApiToolSettle(fnIn.tool, outcome), fnOut.requests)
    /\ UNCHANGED <<serverVars, fnIn>>

NextRequest ==
    \/ ApplyCallApiTool
    \/ \E outcome \in HttpOutcomes : ApplyHttpSettle(outcome)

SpecRequest == InitRequest /\ [][NextRequest]_vars

\* callApiTool handed a request to the HTTP client
RequestSent == fnIn.fn = "callApiTool" /\ fnOut /= NotRun /\ fnOut.requests /= <<>>

RequestReturned == fnIn.fn = "callApiTool" /\ fnOut.done

\* the names between braces in a path template
Placeholders(path) ==
    {SubSeq(path, ij[1] + 1, ij[2] - 1) :
        ij \in {ij \in (DOMAIN path) \X (DOMAIN path) :
                   /\ ij[1] < ij[2]
                   /\ path[ij[1]] = "{"
                   /\ path[ij[2]] = "}"
                   /\ \A k \in (ij[1] + 1)..(ij[2] - 1) : path[k] \notin {"{", "}"}}}

\* the token of a placeholder, as written or as the URL parser encodes it
HasToken(text, name) ==
    \/ IndexOf(text, <<"{">> \o name \o <<"}">>) /= 0
    \/ IndexOf(text, <<"%","7","B">> \o name \o <<"%","7","D">>) /= 0

SuppliesRequired(tool, args) ==
    \A k \in DOMAIN tool.inputSchema.required : HasArg(args, tool.inputSchema.required[k])

\* C11: when the argument bag has a value for every name of the descriptor's
\* required list, the URL of the request built from the descriptor's path
\* template holds no placeholder token of the template.
C11_NoPlaceholderLeft ==
    (RequestSent /\ SuppliesRequired(fnIn.tool, fnIn.args)) =>
        \A name \in Placeholders(fnIn.tool.path) :
            ~HasToken(fnOut.requests[1].url, name)

\* C13: every declared header parameter whose name is in the argument bag
\* has its value among the headers of the request sent.
C13_HeaderParams ==
    RequestSent =>
        \A k \in DOMAIN fnIn.tool.parameters :
            LET param == fnIn.tool.parameters[k]
            IN  (param.in = "header" /\ HasArg(fnIn.args, param.name)) =>
                    \E h \in DOMAIN fnOut.requests[1].headers :
                        /\ fnOut.requests[1].headers[h].key = param.name
                        /\ fnOut.requests[1].headers[h].value
                               = StringOf(ArgOf(fnIn.args, param.name))

\* the sample payloads as JSON.stringify(payload, null, 2) prints them
PrettyId7 == <<"{", "\n", " ", " ", "\"", "i", "d", "\"", ":", " ", "7", "\n", "}">>
PrettyNo == <<"\"", "n", "o", "\"">>

\* the failure of a request that could not be built: encodeURIComponent
\* rejects an unpaired surrogate, the URL constructor a base without scheme
BuildFailure(cfg, args) ==
    IF \E k \in DOMAIN args : args[k].value = Str(<<LoneSurrogate>>)
    THEN <<"URI malformed">>
    ELSE IF cfg.baseUrl = BaseUrlNoScheme THEN <<"Invalid URL">>
    ELSE <<>>

\* the detail the claim gives for each way of failing
DetailOf(cfg, args, out) ==
    IF out.requests = <<>> THEN BuildFailure(cfg, args)
    ELSE IF out.outcome.error.hasResponse
    THEN <<"HTTP ">> \o <<"4", "0", "4">> \o <<": ">> \o PrettyNo
    ELSE <<"connect ECONNREFUSED">>

Failed(out) == out.requests = <<>> \/ out.outcome.kind = "error"

\* C14: the result of a call is flagged isError exactly when the request
\* could not be built or the HTTP client rejected; its text is then "Error
\* calling <tool name>: <detail>", the detail being "HTTP <status>: <pretty
\* payload>" when the rejection carries a response and the failure message
\* otherwise; when the client answers, the text is the pretty-printed payload
\* and the result has no isError flag.
C14_ResultShape ==
    RequestReturned =>
        LET r == fnOut.value.result
        IN  /\ Len(r.content) = 1
            /\ r.content[1].type = "text"
            /\ ("isError" \in DOMAIN r) = Failed(fnOut)
            /\ Failed(fnOut) =>
                  /\ r.isError = TRUE
                  /\ DetailOf(fnIn.config, fnIn.args, fnOut) /= <<>>
                  /\ r.content[1].text =
                        <<"Error calling ">> \o fnIn.tool.name \o <<": ">>
                            \o DetailOf(fnIn.config, fnIn.args, fnOut)
            /\ ~Failed(fnOut) => r.content[1].text = PrettyId7

\* a request was sent, the client rejected with the 404 response, and the
\* result is the flagged text with status and payload
C14_Witness ==
    /\ RequestReturned
    /\ fnOut.requests /= <<>>
    /\ fnOut.outcome.kind = "error"
    /\ fnOut.outcome.error.hasResponse
    /\ fnOut.value.result.isError
    /\ fnOut.value.result.content[1].text =
          <<"Error calling ">> \o IdFindPets \o <<": ">>
              \o <<"HTTP ">> \o <<"4", "0", "4">> \o <<": ">> \o PrettyNo

UrlApiAUnresolved ==
    BaseUrlApi \o <<"/", "a", "/", "%", "7", "B", "i", "d", "%", "7", "D">>

KeysOf(entries) == {entries[j].key : j \in DOMAIN entries}

DistinctKeys(entries) ==
    \A i, j \in DOMAIN entries : i /= j => entries[i].key /= entries[j].key

\* the declared parameters of a location that have a value in the bag
PresentAt(ps, args, in) ==
    {k \in DOMAIN ps : ps[k].in = in /\ HasArg(args, ps[k].name)}

\* the fields of the value given for parameter k
FieldsAt(ps, args, k) == OwnEntries(ArgOf(args, ps[k].name))

\* the last body parameter, in declaration order, whose value has the field
LastWith(ps, args, key) ==
    CHOOSE k \in PresentAt(ps, args, "body") :
        /\ key \in KeysOf(FieldsAt(ps, args, k))
        /\ \A m \in PresentAt(ps, args, "body") :
              key \in KeysOf(FieldsAt(ps, args, m)) => m <= k

FieldValue(entries, key) == entries[CHOOSE j \in DOMAIN entries : entries[j].key = key].value

\* C17: the query mapping holds exactly the declared query parameters that
\* have a value in the bag, each with that value; the body object holds
\* exactly the fields of the values of the declared body parameters that
\* have one, a field declared by two of them with the value of the later;
\* path and header parameters and undeclared arguments add nothing.
C17_Collected ==
    RequestSent =>
        LET ps == fnIn.tool.parameters
            args == fnIn.args
            req == fnOut.requests[1]
        IN  /\ DistinctKeys(req.params)
            /\ KeysOf(req.params) = {ps[k].name : k \in PresentAt(ps, args, "query")}
            /\ \A j \in DOMAIN req.params :
                  req.params[j].value = ArgOf(args, req.params[j].key)
            /\ DistinctKeys(req.data)
            /\ KeysOf(req.data) =
                  UNION {KeysOf(FieldsAt(ps, args, k)) : k \in PresentAt(ps, args, "body")}
            /\ \A j \in DOMAIN req.data :
                  req.data[j].value =
                      FieldValue(FieldsAt(ps, args, LastWith(ps, args, req.data[j].key)),
                                 req.data[j].key)

\* body {name: Fluffy} then extra {name: Rex, age: 3}, with arguments for a
\* header parameter and for undeclared names: name is Rex, the query is empty
C17_Witness ==
    /\ RequestSent
    /\ fnIn.args = ArgsFull
    /\ fnIn.tool.parameters = <<ParamBody, ParamExtra>>
    /\ fnOut.requests[1].params = <<>>
    /\ fnOut.requests[1].data =
          <<[key |-> NameName, value |-> Str(TextRex)],
            [key |-> NameAge, value |-> Num(<<"3">>)]>>

\* C18: the request has a body exactly when some declared body parameter has
\* a value with at least one field, it has the JSON content type exactly then
\* and no header otherwise, and it always has its query mapping, which is
\* empty when no query parameter has a value.
C18_BodyAndQuery ==
    RequestSent =>
        LET ps == fnIn.tool.parameters
            args == fnIn.args
            req == fnOut.requests[1]
            fields == \E k \in PresentAt(ps, args, "body") : FieldsAt(ps, args, k) /= <<>>
        IN  /\ req.hasData = fields
            /\ fields => req.data /= <<>>
            /\ req.headers = IF fields
                             THEN <<[key |-> <<"Content-Type">>,
                                     value |-> <<"application/json">>]>>
                             ELSE <<>>
            /\ "params" \in DOMAIN req
            /\ PresentAt(ps, args, "query") = {} => req.params = <<>>

\* the body value {name: Fluffy} and no query parameter: a JSON body and an
\* empty query mapping
C18_Witness ==
    /\ RequestSent
    /\ fnIn.args = ArgsFull
    /\ fnIn.tool.parameters = <<ParamBody>>
    /\ fnOut.requests[1].hasData
    /\ fnOut.requests[1].data = <<[key |-> NameName, value |-> Str(TextFluffy)]>>
    /\ fnOut.requests[1].headers = ContentTypeJson
    /\ fnOut.requests[1].params = <<>>

(***************************************************************************)
(* SpecUrl: buildUrl applied to sample configurations, API descriptions,   *)
(* path templates and argument bags.                                       *)
(***************************************************************************)
BaseUrlApiSlash == BaseUrlApi \o <<"/">>
TextHttp == <<"h","t","t","p">>
TextApiSlash == TextApi \o <<"/">>
PathId == <<"/","{","i","d","}">>
PathRelative == <<"a">>

UrlSchemes ==
    {NoSchemes,
     [declared |-> TRUE, list |-> <<TextHttp, TextHttps>>],
     [declared |-> TRUE, list |-> <<>>]}

UrlDocs ==
    {Doc(TRUE, <<>>, schemes, host, basePath) :
        schemes \in UrlSchemes, host \in {<<>>, TextHost},
        basePath \in {<<>>, TextApi, TextApiSlash}}

UrlInputs ==
    [fn : {"buildUrl"},
     config : {Config("file", <<>>, b) :
                  b \in {<<>>, BaseUrlApi, BaseUrlApiSlash, BaseUrlNoScheme}},
     doc : UrlDocs,
     path : {PathA, PathId, PathById, PathRelative},
     args : {ArgsNone, ArgsId, ArgsDots}]

InitUrl == Idle /\ fnIn \in UrlInputs /\ fnOut = NotRun

ApplyBuildUrl ==
    /\ fnIn.fn = "buildUrl"
    /\ ~fnOut.done
    /\ fnOut' = [done |-> TRUE,
                 value |-> buildUrl(fnIn.config, fnIn.doc, fnIn.path, fnIn.args)]
    /\ UNCHANGED <<serverVars, fnIn>>

NextUrl == ApplyBuildUrl

SpecUrl == InitUrl /\ [][NextUrl]_vars

UrlBuilt == fnIn.fn = "buildUrl" /\ fnOut.done /\ ~fnOut.value.threw

\* a path without its last character when that is "/"
WithoutSlash(path) ==
    IF endsWith(path, "/") THEN SubSeq(path, 1, Len(path) - 1) ELSE path

\* C12: when the substituted path starts with "/", the URL built has the
\* scheme and the host of the base URL, and its path is the path of the base
\* URL followed by the substituted path (braces written percent-encoded),
\* with one "/" at the join whether or not the base path ends with "/".
C12_BasePathKept ==
    UrlBuilt =>
        LET base == ParseUrl(OrText(fnIn.config.baseUrl, getBaseUrlFromSwagger(fnIn.doc)))
            sub == SubstitutePath(Built(fnIn.path), fnIn.args).text
        IN  startsWith(sub, "/") =>
                fnOut.value.text =
                    base.scheme \o <<":", "/", "/">> \o base.host
                        \o WithoutSlash(base.pathname) \o PathEncode(sub)

\* the base URL as the claim derives it
ClaimedBase(cfg, doc) ==
    IF cfg.baseUrl /= <<>> THEN cfg.baseUrl
    ELSE (IF doc.schemes.declared /\ doc.schemes.list /= <<>>
          THEN doc.schemes.list[1] ELSE TextHttps)
             \o <<":", "/", "/">>
             \o (IF doc.host /= <<>> THEN doc.host ELSE TextLocalhost)
             \o doc.basePath

\* C19: the URL built is the substituted path joined to the configured base
\* URL when there is one, and otherwise to <scheme>://<host><basePath> of
\* the API description, with the first declared scheme or https, the host or
\* localhost, and the basePath or nothing.
C19_BaseUrl ==
    (fnIn.fn = "buildUrl" /\ fnOut.done) =>
        fnOut.value =
            CombineWithBase(SubstitutePath(Built(fnIn.path), fnIn.args),
                            ClaimedBase(fnIn.config, fnIn.doc))

====
